---- MODULE Spec2Model ----
(***************************************************************************)
(* httprunner (src/main.go, the version with /run, /kill, /die and /ls):   *)
(* the process registry `children`, the rate limiter `lastRun`, the        *)
(* capture buffer `limitWriter` and the streaming loop of handleCommand.   *)
(*                                                                         *)
(* The specifications share the variables.                                 *)
(*   Spec        the server: concurrent /run requests, their processes and *)
(*               completion watchers, /ls requests and /kill or /die       *)
(*               requests.  The streaming loop of a /run request is one    *)
(*               step here: it touches no shared state.                    *)
(*   SpecRate    the /run requests alone, under every -rate: no other      *)
(*               handler reads or writes lastRun.                          *)
(*   SpecStream  one /run request from the entry of its streaming loop:    *)
(*               the process-output copier writing through the limitWriter *)
(*               and the driver draining it into the response.             *)
(*   LiveStream  SpecStream with a process that may write for ever, under  *)
(*               the fairness of the Go scheduler and of the clock.        *)
(*                                                                         *)
(* Time is a natural number of clock units.  In SpecStream one unit is     *)
(* 200 ms, so maxIdle is 1 unit and the absolute deadline 5 units.         *)
(***************************************************************************)
EXTENDS Integers, Sequences, FiniteSets, TLC

\* ------------------------------------------------------------- bounds
\* Number of /run requests.
NumReqs == 2
\* Number of clock ticks of a run of Spec and of SpecRate.
MaxTicks == 2
\* Largest -rate value tried (0 disables the limiter).
MaxRate == 2
\* Clock units in one second: time.RFC3339 prints whole seconds.
UnitsPerSecond == 2
\* The limitWriter's ceiling in bytes (1 << 20 in handleCommand, scaled).
Limit == 2
\* Bytes the process writes in a run of SpecStream; the horizon up to which
\* byte sequences and byte counts are kept in LiveStream.
MaxWritten == 3
\* Largest chunk handed to one Write call.
MaxChunk == 2
\* Bytes one Read call can return (the spare capacity bytes.Buffer.ReadFrom
\* offers).
ReadCap == 2
\* Number of clock ticks of a run of SpecStream.
StreamTicks == 7
\* Unread bytes the capture buffer holds at most in LiveStream.
MaxPending == 2

\* ---------------------------------------------------------- constants
StatusOK == 200
StatusTooManyRequests == 429
StatusInternalServerError == 500
\* maxIdle := 200 * time.Millisecond, in units of 200 ms
MaxIdle == 1
\* time.After(1 * time.Second), in units of 200 ms
Deadline == 5

\* The zero time.Time (the initial lastRun) and the time the server boots:
\* farther from the zero time than any rate.
ZeroTime == 0
Boot == MaxRate + 1

Reqs == 1 .. NumReqs
\* The request SpecStream follows.
StreamReq == 1
\* The pid of a nil *os.Process (an entry read after its deletion).
NilPid == 0
\* The response text "Command started but no output yet.": one item that is
\* no output byte (output bytes are numbered from 1).
Placeholder == <<0>>
ContentType == "text/plain; charset=utf-8"

VARIABLES
  now,          \* time.Now()
  flagRate,     \* *flagRate, set once at startup
  exited,       \* os.Exit(0) was called (handleDie)
  lastRun,      \* lastRun (guarded by lastRunMu)
  children,     \* children: map[time.Time]*os.Process, here time -> pid
  childrenMu,   \* childrenMu: [w |-> write-locked, r |-> number of read locks]
  pc,           \* position of each /run request in handleCommand
  status,       \* status code written to each /run response, 0: none yet
  startTime,    \* startTime of each /run request
  proc,         \* each request's process: "none", "running", "exited"
  signalled,    \* the processes that received a kill signal
  watcher,      \* each completion watcher: "none", "waiting", "reaped", "done"
  lpc, lkeys, lout,     \* handleList: position, t (the sorted keys), out
  kpc, kkind, ktodo,    \* killChildren: position, "kill" or "die", keys left
  kfailed,      \* the processes whose Kill failed in this killChildren call
  ksleep,       \* handleDie: the time its time.Sleep started
  \* history of the server (not program state)
  lastRec,      \* time recorded by the last request whose start succeeded
  recSeen,      \* per request: the requests that had recorded their start
                \* when its rate check passed
  tracked,      \* processes registered and not removed since
  emptied,      \* killChildren returned and no registration completed since
  lafterKill,   \* the handleList call ran while `emptied`
  kat,          \* per request: where it was when the last killChildren call
                \* took the lock
  \* one /run request's capture buffer and streaming loop
  lw,           \* the limitWriter value: [limit, sum, discarding]
  buf,          \* the unread bytes of lw.buf
  written,      \* the bytes the process has handed to Write
  wpc, wp,      \* the output copier: position in Write, the chunk p
  wret,         \* the last return of Write: [n |-> n, len |-> len(p)]
  dpc,          \* the driver: position in the loop
  n,            \* n of n, err := io.Copy(&bufout, lw), while it runs
  bufout,       \* bufout
  seenData,     \* seenData
  lastDataTime, \* lastDataTime
  t,            \* the time at which the channel t of time.After fires
  ctype,        \* the Content-Type header set by the handler
  body,         \* the response body
  \* history of the request (not program state)
  commits,      \* number of w.WriteHeader(http.StatusOK) calls
  yields,       \* number of io.Copy calls that returned n > 0 (2: two or more)
  drained       \* the bytes the Read calls have returned

clockVars == <<now>>
confVars == <<flagRate, exited>>
rateVars == <<lastRun, lastRec, recSeen>>
regVars == <<children, childrenMu, tracked, emptied>>
reqVars == <<pc, status, startTime>>
procVars == <<proc, signalled, watcher>>
listVars == <<lpc, lkeys, lout, lafterKill>>
killVars == <<kpc, kkind, ktodo, kfailed, ksleep, kat>>
bufVars == <<lw, buf, written, wpc, wp, wret, drained>>
drvVars == <<dpc, n, bufout, seenData, lastDataTime, t, ctype, body,
             commits, yields>>
strVars == <<bufVars, drvVars>>
srvVars == <<confVars, rateVars, regVars, reqVars, procVars, listVars,
             killVars>>

vars == <<clockVars, srvVars, strVars>>

\* --------------------------------------------------------- the registry
EmptyMap == [k \in {} |-> NilPid]

\* children[t] = p
MapPut(m, k0, p) == [k \in (DOMAIN m) \cup {k0} |-> IF k = k0 THEN p ELSE m[k]]

\* delete(children, t)
MapDelete(m, k0) == [k \in (DOMAIN m) \ {k0} |-> m[k]]

\* children[pt] in handleList: nil when the key is absent
MapGet(m, k0) == IF k0 \in DOMAIN m THEN m[k0] ELSE NilPid

Pids(m) == {m[k] : k \in DOMAIN m}

\* times.Less
Less(a, b) == a < b

\* sort.Sort(t) on the keys of the map
RECURSIVE SortTimes(_)
SortTimes(S) ==
  IF S = {} THEN <<>>
  ELSE LET m == CHOOSE x \in S : \A y \in S : ~Less(y, x)
       IN <<m>> \o SortTimes(S \ {m})

\* childrenMu.Lock() can return
CanLock == ~childrenMu.w /\ childrenMu.r = 0

\* childrenMu.RLock() can return
CanRLock == ~childrenMu.w

\* ------------------------------------------------------- the rate limiter
\* A rate test that lets a request pass one clock unit too early.
RateLimitedLate(at, last, rate) == rate # 0 /\ at + 1 < last + rate

\* *flagRate != 0 and time.Now().Before(lastRun.Add(*flagRate))
RateLimited(at, last, rate) == rate # 0 /\ at < last + rate

\* A handler that starts a process and leaves lastRun as it was.
NewLastRunStale(r) == lastRun

\* lastRun = time.Now() after a successful start
NewLastRun(r) == now

\* ------------------------------------------------------ handleCommand
\* What the client receives: net/http sends 200 when the handler returns
\* without having written a status.
Answered(r) == IF status[r] = 0 THEN StatusOK ELSE status[r]

\* A rejection that also writes lastRun.
RejectRecording(r) ==
  /\ status' = [status EXCEPT ![r] = StatusTooManyRequests]
  /\ pc' = [pc EXCEPT ![r] = "done"]
  /\ lastRun' = now
  /\ UNCHANGED <<startTime, lastRec, recSeen, regVars, procVars>>

\* http.Error(w, "...rate limited", http.StatusTooManyRequests); return
Reject(r) ==
  /\ status' = [status EXCEPT ![r] = StatusTooManyRequests]
  /\ pc' = [pc EXCEPT ![r] = "done"]
  /\ UNCHANGED <<startTime, rateVars, regVars, procVars>>

\* The rate check at the head of handleCommand.
RateCheck(r) ==
  /\ ~exited
  /\ pc[r] = "init"
  /\ IF RateLimited(now, lastRun, flagRate)
       THEN Reject(r)
       ELSE /\ pc' = [pc EXCEPT ![r] = "start"]
            /\ recSeen' = IF flagRate = 0 THEN recSeen
                 ELSE [recSeen EXCEPT ![r] =
                        {q \in Reqs : pc[q] \in {"stream", "done"}
                                         /\ proc[q] # "none"}]
            /\ UNCHANGED <<status, startTime, lastRun, lastRec, regVars,
                           procVars>>
  /\ UNCHANGED <<clockVars, confVars, listVars, killVars, strVars>>

\* cmd.Start() fails: log.Printf and return; nothing is written to w.
StartFail(r) ==
  /\ ~exited
  /\ pc[r] = "start"
  /\ pc' = [pc EXCEPT ![r] = "done"]
  /\ UNCHANGED <<status, startTime, clockVars, confVars, rateVars, regVars,
                 procVars, listVars, killVars, strVars>>

\* cmd.Start() succeeds; startTime := time.Now()
StartOK(r) ==
  /\ ~exited
  /\ pc[r] = "start"
  /\ proc' = [proc EXCEPT ![r] = "running"]
  /\ startTime' = [startTime EXCEPT ![r] = now]
  /\ pc' = [pc EXCEPT ![r] = "register"]
  /\ UNCHANGED <<status, signalled, watcher, clockVars, confVars, rateVars,
                 regVars, listVars, killVars, strVars>>

\* childrenMu.Lock(); children[startTime] = cmd.Process; childrenMu.Unlock()
Register(r) ==
  /\ ~exited
  /\ pc[r] = "register"
  /\ CanLock
  /\ children' = MapPut(children, startTime[r], r)
  /\ tracked' = tracked \cup {r}
  /\ emptied' = FALSE
  /\ pc' = [pc EXCEPT ![r] = "record"]
  /\ UNCHANGED <<status, startTime, childrenMu, clockVars, confVars,
                 rateVars, procVars, listVars, killVars, strVars>>

\* lastRunMu.Lock(); lastRun = time.Now(); lastRunMu.Unlock(); then the
\* completion watcher is started (go func).
Record(r) ==
  /\ ~exited
  /\ pc[r] = "record"
  /\ lastRun' = NewLastRun(r)
  /\ lastRec' = now
  /\ watcher' = [watcher EXCEPT ![r] = "waiting"]
  /\ pc' = [pc EXCEPT ![r] = "stream"]
  /\ UNCHANGED <<status, startTime, recSeen, proc, signalled, clockVars,
                 confVars, regVars, listVars, killVars, strVars>>

\* The streaming loop and sendResponse, as far as the server state goes:
\* the handler returns having answered 200 (SpecStream has the loop).
Stream(r) ==
  /\ ~exited
  /\ pc[r] = "stream"
  /\ status' = [status EXCEPT ![r] = StatusOK]
  /\ pc' = [pc EXCEPT ![r] = "done"]
  /\ UNCHANGED <<startTime, clockVars, confVars, rateVars, regVars,
                 procVars, listVars, killVars, strVars>>

\* The spawned process ends, by itself or by a signal.
ProcExit(r) ==
  /\ proc[r] = "running"
  /\ proc' = [proc EXCEPT ![r] = "exited"]
  /\ UNCHANGED <<signalled, watcher, clockVars, confVars, rateVars, regVars,
                 reqVars, listVars, killVars, strVars>>

\* cmd.Wait() returns in the completion watcher.
WatcherWait(r) ==
  /\ ~exited
  /\ watcher[r] = "waiting"
  /\ proc[r] = "exited"
  /\ watcher' = [watcher EXCEPT ![r] = "reaped"]
  /\ UNCHANGED <<proc, signalled, clockVars, confVars, rateVars, regVars,
                 reqVars, listVars, killVars, strVars>>

\* childrenMu.Lock(); delete(children, startTime); childrenMu.Unlock()
WatcherDelete(r) ==
  /\ ~exited
  /\ watcher[r] = "reaped"
  /\ CanLock
  /\ children' = MapDelete(children, startTime[r])
  /\ tracked' = tracked \ {r}
  /\ watcher' = [watcher EXCEPT ![r] = "done"]
  /\ UNCHANGED <<proc, signalled, childrenMu, emptied, clockVars, confVars,
                 rateVars, reqVars, listVars, killVars, strVars>>

\* --------------------------------------------------------- handleList
\* pt.Format(time.RFC3339): the time in whole seconds
RFC3339(at) == at \div UnitsPerSecond

\* childrenMu.RLock()
ListRLock ==
  /\ ~exited
  /\ lpc = "idle"
  /\ CanRLock
  /\ childrenMu' = [childrenMu EXCEPT !.r = @ + 1]
  /\ lpc' = "locked"
  /\ UNCHANGED <<children, tracked, emptied, lkeys, lout, lafterKill,
                 clockVars, confVars, rateVars, reqVars, procVars, killVars,
                 strVars>>

\* for k := range children { t = append(t, k) }; sort.Sort(t)
ListKeys ==
  /\ ~exited
  /\ lpc = "locked"
  /\ lkeys' = SortTimes(DOMAIN children)
  /\ lpc' = "sorted"
  /\ UNCHANGED <<lout, lafterKill, clockVars, confVars, rateVars, regVars,
                 reqVars, procVars, killVars, strVars>>

\* The lines "<RFC3339 time> : <pid>", io.Copy(w, &out), and the deferred
\* childrenMu.RUnlock()
ListFormat ==
  /\ ~exited
  /\ lpc = "sorted"
  /\ lout' = [i \in 1 .. Len(lkeys) |->
                <<RFC3339(lkeys[i]), MapGet(children, lkeys[i])>>]
  /\ lafterKill' = emptied
  /\ childrenMu' = [childrenMu EXCEPT !.r = @ - 1]
  /\ lpc' = "done"
  /\ UNCHANGED <<children, tracked, emptied, lkeys, clockVars, confVars,
                 rateVars, reqVars, procVars, killVars, strVars>>

\* The /ls request is over; another one may come.
ListReturn ==
  /\ ~exited
  /\ lpc = "done"
  /\ lpc' = "idle"
  /\ lkeys' = <<>>
  /\ lout' = <<>>
  /\ lafterKill' = FALSE
  /\ UNCHANGED <<clockVars, confVars, rateVars, regVars, reqVars, procVars,
                 killVars, strVars>>

\* Where request r is when killChildren takes the lock: its process is in
\* the registry, or started and not yet registered (between cmd.Start and
\* childrenMu.Lock), or started and no longer in the registry, or not
\* started.
AtKill(r) ==
  IF r \in Pids(children) THEN "registered"
  ELSE IF pc[r] = "register" THEN "window"
  ELSE IF proc[r] # "none" THEN "gone"
  ELSE "none"

\* ------------------------------------------- killChildren, /kill, /die
\* childrenMu.Lock() of killChildren, called by handleKillAll or handleDie
KillLock(kind) ==
  /\ ~exited
  /\ kpc = "idle"
  /\ CanLock
  /\ childrenMu' = [childrenMu EXCEPT !.w = TRUE]
  /\ kat' = [r \in Reqs |-> AtKill(r)]
  /\ kkind' = kind
  /\ ktodo' = DOMAIN children
  /\ kfailed' = {}
  /\ kpc' = "range"
  /\ UNCHANGED <<children, tracked, emptied, ksleep, clockVars, confVars,
                 rateVars, reqVars, procVars, listVars, strVars>>

\* v.Kill() fails on a process that was already waited for
\* ("os: process already finished").
KillFails(p) == watcher[p] \in {"reaped", "done"}

\* A range loop that stops at the first Kill that fails.
KillRestAbort(todo, k, failed) == IF failed THEN {} ELSE todo \ {k}

\* The keys the range loop still visits after the Kill of one entry: a
\* failure is logged and the loop goes on.
KillRest(todo, k, failed) == todo \ {k}

\* One iteration of for _, v := range children { v.Kill() ... }
KillOne(k) ==
  /\ ~exited
  /\ kpc = "range"
  /\ k \in ktodo
  /\ LET p == children[k]
     IN /\ IF KillFails(p)
             THEN kfailed' = kfailed \cup {p} /\ UNCHANGED signalled
             ELSE signalled' = signalled \cup {p} /\ UNCHANGED kfailed
        /\ ktodo' = KillRest(ktodo, k, KillFails(p))
  /\ UNCHANGED <<proc, watcher, kpc, kkind, ksleep, kat, clockVars,
                 confVars, rateVars, regVars, reqVars, listVars, strVars>>

\* children = make(map[time.Time]*os.Process)
Cleared(m) == EmptyMap

\* The end of killChildren: the new map and the deferred Unlock; the handler
\* then writes its message (handleDie goes on to time.Sleep).
KillClear ==
  /\ ~exited
  /\ kpc = "range"
  /\ ktodo = {}
  /\ children' = Cleared(children)
  /\ childrenMu' = [childrenMu EXCEPT !.w = FALSE]
  /\ tracked' = {}
  /\ emptied' = TRUE
  /\ ksleep' = IF kkind = "die" THEN now ELSE ksleep
  /\ kpc' = IF kkind = "die" THEN "dying" ELSE "idle"
  /\ UNCHANGED <<kkind, ktodo, kfailed, kat, clockVars, confVars,
                 rateVars, reqVars, procVars, listVars, strVars>>

\* handleDie: time.Sleep(time.Second) is over; os.Exit(0)
DieExit ==
  /\ ~exited
  /\ kpc = "dying"
  /\ now >= ksleep + UnitsPerSecond
  /\ exited' = TRUE
  /\ UNCHANGED <<flagRate, clockVars, rateVars, regVars, reqVars, procVars,
                 listVars, killVars, strVars>>

\* The clock advances.
Tick ==
  /\ now < Boot + MaxTicks
  /\ now' = now + 1
  /\ UNCHANGED <<srvVars, strVars>>

\* The stream variables while no streaming loop is followed.
NoStream ==
  /\ lw = [limit |-> Limit, sum |-> 0, discarding |-> FALSE]
  /\ buf = <<>> /\ written = <<>> /\ wpc = "idle" /\ wp = <<>>
  /\ wret = [n |-> 0, len |-> 0]
  /\ drained = <<>>
  /\ dpc = "entry" /\ n = 0 /\ bufout = <<>> /\ seenData = FALSE
  /\ lastDataTime = ZeroTime /\ t = ZeroTime /\ ctype = "" /\ body = <<>>
  /\ commits = 0 /\ yields = 0

\* The state after main has parsed the flags and made the map.
InitServer ==
  /\ now = Boot
  /\ exited = FALSE
  /\ lastRun = ZeroTime
  /\ children = EmptyMap
  /\ childrenMu = [w |-> FALSE, r |-> 0]
  /\ pc = [r \in Reqs |-> "init"]
  /\ status = [r \in Reqs |-> 0]
  /\ startTime = [r \in Reqs |-> ZeroTime]
  /\ proc = [r \in Reqs |-> "none"]
  /\ signalled = {}
  /\ watcher = [r \in Reqs |-> "none"]
  /\ lpc = "idle" /\ lkeys = <<>> /\ lout = <<>>
  /\ kpc = "idle" /\ kkind = "kill" /\ ktodo = {} /\ kfailed = {}
  /\ ksleep = ZeroTime
  /\ lastRec = ZeroTime
  /\ recSeen = [r \in Reqs |-> {}]
  /\ tracked = {}
  /\ emptied = FALSE /\ lafterKill = FALSE
  /\ kat = [r \in Reqs |-> "none"]
  /\ NoStream

\* The server started with -rate 0: every /run request may start a process.
Init ==
  /\ flagRate = 0
  /\ InitServer

Next ==
  \/ \E r \in Reqs : RateCheck(r)
  \/ \E r \in Reqs : StartFail(r)
  \/ \E r \in Reqs : StartOK(r)
  \/ \E r \in Reqs : Register(r)
  \/ \E r \in Reqs : Record(r)
  \/ \E r \in Reqs : Stream(r)
  \/ \E r \in Reqs : ProcExit(r)
  \/ \E r \in Reqs : WatcherWait(r)
  \/ \E r \in Reqs : WatcherDelete(r)
  \/ ListRLock
  \/ ListKeys
  \/ ListFormat
  \/ ListReturn
  \/ \E kind \in {"kill", "die"} : KillLock(kind)
  \/ \E k \in ktodo : KillOne(k)
  \/ KillClear
  \/ DieExit
  \/ Tick

Spec == Init /\ [][Next]_vars

\* The /run requests alone, under every rate.
InitRate ==
  /\ flagRate \in 0 .. MaxRate
  /\ InitServer

NextRate ==
  \/ \E r \in Reqs : RateCheck(r)
  \/ \E r \in Reqs : StartFail(r)
  \/ \E r \in Reqs : StartOK(r)
  \/ \E r \in Reqs : Register(r)
  \/ \E r \in Reqs : Record(r)
  \/ \E r \in Reqs : Stream(r)
  \/ Tick

SpecRate == InitRate /\ [][NextRate]_vars

\* ----------------------------------------------------------- limitWriter
Min(a, b) == IF a < b THEN a ELSE b

\* A byte sequence or a byte count, kept up to the horizon MaxWritten (in
\* SpecStream nothing is longer).
Keep(s) == SubSeq(s, 1, Min(Len(s), MaxWritten))
KeepCount(c) == Min(c, MaxWritten + 1)

\* The next k bytes the process writes: output bytes are numbered in the
\* order the process writes them (past the horizon they share one number).
NextChunk(k) == [i \in 1 .. k |-> Min(Len(written) + i, MaxWritten + 1)]

\* The limitWriter the callers hold after a call of Write has changed its
\* receiver to `after`: Write and Read have value receivers
\* (func (lw limitWriter) ...), so they work on a copy and the callers'
\* limitWriter stays as it was.
Receiver(before, after) == before

\* lw.sum += n; if lw.sum > lw.limit { lw.discarding = true }
Counted(l, k) ==
  [l EXCEPT !.sum = KeepCount(l.sum + k),
            !.discarding = (l.discarding \/ l.sum + k > l.limit)]

\* Write is called with the next chunk; it reads lw.discarding and either
\* returns through ioutil.Discard.Write or enters the section of bufMu (the
\* mutex is a field of the copy: locking it never waits).
WriteEnter(k) ==
  /\ wpc = "idle"
  /\ written' = Keep(written \o NextChunk(k))
  /\ IF lw.discarding
       THEN wret' = [n |-> k, len |-> k] /\ UNCHANGED <<wpc, wp>>
       ELSE wpc' = "locked" /\ wp' = NextChunk(k) /\ UNCHANGED wret
  /\ UNCHANGED <<lw, buf, drained, drvVars, clockVars, srvVars>>

\* n, err = lw.buf.Write(p); lw.bufMu.Unlock(); the count and the flag;
\* return
WriteBuf ==
  /\ wpc = "locked"
  /\ buf' = buf \o wp
  /\ lw' = Receiver(lw, Counted(lw, Len(wp)))
  /\ wret' = [n |-> Len(wp), len |-> Len(wp)]
  /\ wpc' = "idle"
  /\ wp' = <<>>
  /\ UNCHANGED <<written, drained, drvVars, clockVars, srvVars>>

\* ---------------------------------------- the streaming loop of handleCommand
\* A sendResponse that writes the placeholder after the buffer's bytes.
ResponseWithPlaceholder(b) == b \o Placeholder

\* sendResponse(&bufout): the buffer if it holds bytes, else the placeholder
Response(b) == IF Len(b) > 0 THEN b ELSE Placeholder

\* A loop that commits the header at every io.Copy that returned bytes.
FirstDataAlways(seen) == TRUE

\* if !seenData { ... w.WriteHeader(http.StatusOK); seenData = true }
FirstData(seen) == ~seen

\* sendResponse and the return of the handler: io.Copy(w, response) sends the
\* header with status 200 if none was sent.
SendResponse ==
  /\ body' = body \o Response(bufout)
  /\ status' = [status EXCEPT ![StreamReq] = StatusOK]
  /\ pc' = [pc EXCEPT ![StreamReq] = "done"]
  /\ dpc' = "done"

\* maxIdle, t := time.After(1 * time.Second), lastDataTime := time.Now()
LoopEntry ==
  /\ dpc = "entry"
  /\ t' = now + Deadline
  /\ lastDataTime' = now
  /\ dpc' = "select"
  /\ UNCHANGED <<n, bufout, seenData, ctype, body, commits, yields, bufVars,
                 clockVars, srvVars>>

\* select { case <-t: sendResponse(&bufout); return; default: } and the
\* call of io.Copy(&bufout, lw)
Select ==
  /\ dpc = "select"
  /\ IF now >= t
       THEN /\ SendResponse
            /\ UNCHANGED <<n, startTime>>
       ELSE /\ dpc' = "read"
            /\ n' = 0
            /\ UNCHANGED <<body, reqVars>>
  /\ UNCHANGED <<bufout, seenData, lastDataTime, t, ctype, commits, yields,
                 bufVars, clockVars, confVars, rateVars, regVars, procVars,
                 listVars, killVars>>

\* bufout.ReadFrom(lw) calls lw.Read: it reads lw.discarding and either
\* returns 0, io.EOF (io.Copy then returns n, nil) or enters the section of
\* bufMu.
ReadEnter ==
  /\ dpc = "read"
  /\ dpc' = IF lw.discarding THEN "after" ELSE "locked"
  /\ UNCHANGED <<n, bufout, seenData, lastDataTime, t, ctype, body, commits,
                 yields, bufVars, clockVars, srvVars>>

\* return lw.buf.Read(p): up to len(p) unread bytes, which ReadFrom appends
\* to bufout before it reads again; 0, io.EOF from an empty buffer, on which
\* io.Copy returns n, nil.
ReadBuf ==
  /\ dpc = "locked"
  /\ IF buf = <<>>
       THEN /\ dpc' = "after"
            /\ UNCHANGED <<n, buf, bufout, drained>>
       ELSE LET k == Min(ReadCap, Len(buf))
            IN /\ bufout' = Keep(bufout \o SubSeq(buf, 1, k))
               /\ drained' = Keep(drained \o SubSeq(buf, 1, k))
               /\ buf' = SubSeq(buf, k + 1, Len(buf))
               /\ n' = KeepCount(n + k)
               /\ dpc' = "read"
  /\ UNCHANGED <<lw, written, wpc, wp, wret, seenData, lastDataTime, t,
                 ctype, body, commits, yields, clockVars, srvVars>>

\* ---------------------------------------------- the race on the buffer
\* bufMu is a field of the receiver's copy, so lw.buf.Write and lw.buf.Read
\* can run at the same time on the one bytes.Buffer: a data race.  Besides
\* the outcomes of running one after the other (WriteBuf, ReadBuf), the
\* steps below are outcomes of buf.Write (lengthen the slice, then copy p
\* into it) interleaved with buf.Read (Reset when empty, else copy out and
\* advance the offset).

\* A byte the process did not write at that place: what the backing array
\* holds beyond the buffer's length.
Garbage == MaxWritten + 2
Stale(k) == [i \in 1 .. k |-> Garbage]

\* The text of a runtime error written by http.Error: no output byte.
PanicText == <<0 - 1>>

\* Read copies out after Write has lengthened the slice and before Write
\* has copied p: Read returns the unread bytes and then what the array held
\* in the place of p, and the offset passes that place, so the bytes of p
\* land behind it.
RacyReadBuf ==
  /\ dpc = "locked" /\ wpc = "locked"
  /\ Len(buf) + Len(wp) <= ReadCap
  /\ bufout' = Keep(bufout \o buf \o Stale(Len(wp)))
  /\ drained' = Keep(drained \o buf \o Stale(Len(wp)))
  /\ n' = KeepCount(n + Len(buf) + Len(wp))
  /\ buf' = <<>>
  /\ wpc' = "lost"
  /\ dpc' = "read"
  /\ UNCHANGED <<lw, written, wp, wret, seenData, lastDataTime, t, ctype,
                 body, commits, yields, clockVars, srvVars>>

\* Read finds the buffer empty and calls Reset after Write has lengthened
\* the slice: the length is 0 again and the bytes of p are not in the
\* buffer; Read returns 0, io.EOF.  Write's copy(b.buf[m:], p) either still
\* has the lengthened slice and copies all of p, or sees the slice of
\* length 0 and copies nothing.
RacyReset ==
  /\ dpc = "locked" /\ wpc = "locked"
  /\ buf = <<>>
  /\ wpc' \in {"lost", "short"}
  /\ dpc' = "after"
  /\ UNCHANGED <<lw, buf, written, wp, wret, drained, n, bufout, seenData,
                 lastDataTime, t, ctype, body, commits, yields, clockVars,
                 srvVars>>

\* The Write whose bytes were lost returns as any other Write does.
WriteLost ==
  /\ wpc = "lost"
  /\ lw' = Receiver(lw, Counted(lw, Len(wp)))
  /\ wret' = [n |-> Len(wp), len |-> Len(wp)]
  /\ wpc' = "idle"
  /\ wp' = <<>>
  /\ UNCHANGED <<buf, written, drained, drvVars, clockVars, srvVars>>

\* The Write that copied nothing returns 0, nil: io.MultiWriter returns
\* io.ErrShortWrite and the copier goroutine of os/exec stops.
WriteShort ==
  /\ wpc = "short"
  /\ lw' = Receiver(lw, Counted(lw, 0))
  /\ wret' = [n |-> 0, len |-> Len(wp)]
  /\ wpc' = "stopped"
  /\ wp' = <<>>
  /\ UNCHANGED <<buf, written, drained, drvVars, clockVars, srvVars>>

\* Read slices the buffer at an offset beyond the length that Write has set
\* meanwhile: the handler panics, makeHandler recovers the runtime error and
\* calls http.Error, which sets status 500 unless the header was sent.
ReadPanic ==
  /\ dpc = "locked" /\ wpc = "locked"
  /\ status' = [status EXCEPT ![StreamReq] =
                  IF @ = 0 THEN StatusInternalServerError ELSE @]
  /\ body' = body \o PanicText
  /\ pc' = [pc EXCEPT ![StreamReq] = "done"]
  /\ dpc' = "panic"
  /\ UNCHANGED <<n, bufout, seenData, lastDataTime, t, ctype, commits,
                 yields, startTime, bufVars, clockVars, confVars, rateVars,
                 regVars, procVars, listVars, killVars>>

\* Write slices the buffer at its old length after Read's Reset has set the
\* length to 0: the copier goroutine of os/exec panics, nothing recovers it
\* and the server process ends.
WritePanic ==
  /\ wpc = "locked" /\ dpc = "locked"
  /\ buf = <<>> /\ drained # <<>>
  /\ exited' = TRUE
  /\ wpc' = "panic"
  /\ dpc' = "panic"
  /\ UNCHANGED <<flagRate, lw, buf, written, wp, wret, drained, n, bufout,
                 seenData, lastDataTime, t, ctype, body, commits, yields,
                 clockVars, rateVars, regVars, reqVars, procVars, listVars,
                 killVars>>

\* An idle test that is met when exactly maxIdle has passed.
IdleAtLimit(last, at) == last + MaxIdle <= at

\* lastDataTime.Add(maxIdle).Before(time.Now())
Idle(last, at) == last + MaxIdle < at

\* After io.Copy returned n, nil: the header on the first data, the idle
\* test on no data; past the idle time the loop breaks and sendResponse
\* follows.
AfterCopy ==
  /\ dpc = "after"
  /\ IF n > 0
       THEN /\ IF FirstData(seenData)
                 THEN /\ ctype' = ContentType
                      /\ status' = [status EXCEPT ![StreamReq] = StatusOK]
                      /\ commits' = commits + 1
                      /\ seenData' = TRUE
                 ELSE UNCHANGED <<ctype, status, commits, seenData>>
            /\ yields' = Min(yields + 1, 2)
            /\ lastDataTime' = now
            /\ dpc' = "select"
            /\ UNCHANGED <<body, pc>>
       ELSE /\ IF Idle(lastDataTime, now)
                 THEN SendResponse
                 ELSE dpc' = "select" /\ UNCHANGED <<body, status, pc>>
            /\ UNCHANGED <<ctype, commits, seenData, yields, lastDataTime>>
  /\ UNCHANGED <<n, bufout, t, startTime, bufVars, clockVars, confVars,
                 rateVars, regVars, procVars, listVars, killVars>>

\* The clock advances during the request.  The clock is bounded: the loop is
\* entered early enough for its deadline to lie within the clock's range.
TickStream ==
  /\ now < Boot + StreamTicks
  /\ dpc = "entry" => now + Deadline < Boot + StreamTicks
  /\ now' = now + 1
  /\ UNCHANGED <<srvVars, strVars>>

\* The server when request StreamReq has started its process, registered it
\* and recorded the start.
StreamServer ==
  /\ now = Boot
  /\ flagRate = MaxRate
  /\ exited = FALSE
  /\ lastRun = Boot
  /\ children = MapPut(EmptyMap, Boot, StreamReq)
  /\ childrenMu = [w |-> FALSE, r |-> 0]
  /\ pc = [r \in Reqs |-> IF r = StreamReq THEN "stream" ELSE "init"]
  /\ status = [r \in Reqs |-> 0]
  /\ startTime = [r \in Reqs |-> IF r = StreamReq THEN Boot ELSE ZeroTime]
  /\ proc = [r \in Reqs |-> IF r = StreamReq THEN "running" ELSE "none"]
  /\ signalled = {}
  /\ watcher = [r \in Reqs |-> IF r = StreamReq THEN "waiting" ELSE "none"]
  /\ lpc = "idle" /\ lkeys = <<>> /\ lout = <<>>
  /\ kpc = "idle" /\ kkind = "kill" /\ ktodo = {} /\ kfailed = {}
  /\ ksleep = ZeroTime
  /\ lastRec = Boot
  /\ recSeen = [r \in Reqs |-> {}]
  /\ tracked = {StreamReq}
  /\ emptied = FALSE /\ lafterKill = FALSE
  /\ kat = [r \in Reqs |-> "none"]

\* Request StreamReq is about to enter the streaming loop.
InitStream ==
  /\ StreamServer
  /\ NoStream

\* The steps of the request's goroutine in the loop.
Driver ==
  \/ LoopEntry
  \/ Select
  \/ ReadEnter
  \/ ReadBuf
  \/ RacyReadBuf
  \/ RacyReset
  \/ ReadPanic
  \/ AfterCopy

\* The process writes at most MaxWritten bytes.
NextStream ==
  \/ \E k \in 1 .. MaxChunk : Len(written) + k <= MaxWritten /\ WriteEnter(k)
  \/ WriteBuf
  \/ WriteLost
  \/ WriteShort
  \/ WritePanic
  \/ LoopEntry
  \/ Select
  \/ ReadEnter
  \/ ReadBuf
  \/ RacyReadBuf
  \/ RacyReset
  \/ ReadPanic
  \/ AfterCopy
  \/ TickStream

SpecStream == InitStream /\ [][NextStream]_vars

\* The process writes whenever the buffer holds fewer than MaxPending unread
\* bytes, without end.
NextLive ==
  \/ \E k \in 1 .. MaxChunk : Len(buf) + k <= MaxPending /\ WriteEnter(k)
  \/ WriteBuf
  \/ WriteLost
  \/ WriteShort
  \/ WritePanic
  \/ LoopEntry
  \/ Select
  \/ ReadEnter
  \/ ReadBuf
  \/ RacyReadBuf
  \/ RacyReset
  \/ ReadPanic
  \/ AfterCopy
  \/ TickStream

\* The Go scheduler runs the request's goroutine whenever it can take a
\* step, and the clock advances.
LiveStream ==
  InitStream /\ [][NextLive]_vars /\ WF_vars(Driver) /\ WF_vars(TickStream)

\* limitWriter.Read as a function of its receiver: the limitWriter is any
\* value of the type, with up to MaxWritten stored bytes, discarding or not,
\* and the request is about to enter the loop that calls Read.
InitRead ==
  /\ StreamServer
  /\ \E stored \in 0 .. MaxWritten, d \in BOOLEAN :
       /\ lw = [limit |-> Limit, sum |-> stored, discarding |-> d]
       /\ written = [i \in 1 .. stored |-> i]
       /\ buf = written
  /\ wpc = "idle" /\ wp = <<>> /\ drained = <<>>
  /\ wret = [n |-> 0, len |-> 0]
  /\ dpc = "entry" /\ n = 0 /\ bufout = <<>> /\ seenData = FALSE
  /\ lastDataTime = ZeroTime /\ t = ZeroTime /\ ctype = "" /\ body = <<>>
  /\ commits = 0 /\ yields = 0

SpecRead == InitRead /\ [][NextStream]_vars

\* ================================================================ claims
IsPrefix(a, b) == Len(a) <= Len(b) /\ SubSeq(b, 1, Len(a)) = a

\* The bytes the capture buffer has retained: those drained and those unread.
Retained == drained \o buf

\* The processes whose start succeeded.
Started == {r \in Reqs : proc[r] # "none"}

\* The requests that have recorded their start in lastRun.
Recorded == {r \in Started : pc[r] \in {"stream", "done"}}

\* C1: whatever is written, the bytes the limitWriter's buffer has retained
\* are a prefix of the written bytes and are at most `limit` bytes (so no
\* Write stores anything once `limit` bytes are retained).
C1_RetainsAtMostCeiling ==
  /\ IsPrefix(Retained, written)
  /\ Len(Retained) <= lw.limit

\* C2: a run request is rejected with 429 exactly when the rate is not zero
\* and the time of its check is earlier than the time recorded by the last
\* successfully started process plus the rate; with rate 0 none is rejected.
C2_RejectedIffTooEarly ==
  [][\A r \in Reqs :
       (pc[r] = "init" /\ pc'[r] # "init")
         => ((status'[r] = StatusTooManyRequests /\ pc'[r] = "done")
               <=> (flagRate > 0 /\ now < lastRec + flagRate))]_vars

C2_Witness ==
  \E r, q \in Reqs :
    /\ flagRate > 0
    /\ status[r] = StatusTooManyRequests
    /\ q \in Recorded
    /\ now > startTime[q]

\* C3: the list that handleList writes shows exactly the processes that are
\* registered and not removed at the moment of the call, by ascending start
\* time.
C3_ListShowsRegisteredProcesses ==
  [][(lpc = "sorted" /\ lpc' = "done")
       => /\ {lout'[i][2] : i \in DOMAIN lout'} = tracked
          /\ \A i, j \in DOMAIN lkeys : i < j => lkeys[i] < lkeys[j]]_vars

\* C4: the handler calls WriteHeader(200) at most once, with the text/plain
\* content type, exactly when an io.Copy has returned bytes, at the first
\* such io.Copy, and no output byte is in the response body before that.
HasOutput(b) == \E i \in DOMAIN b : b[i] >= 1

C4_HeaderOnceBeforeOutput ==
  /\ [](/\ commits <= 1
        /\ (commits = 1 <=> yields >= 1)
        /\ (commits = 1 => status[StreamReq] = StatusOK /\ ctype = ContentType)
        /\ (HasOutput(body) => commits = 1))
  /\ [][commits' # commits
          => (yields = 0 /\ yields' = 1 /\ body = <<>> /\ body' = <<>>)]_vars

C4_Witness ==
  /\ dpc = "done"
  /\ commits = 1
  /\ yields = 2
  /\ HasOutput(body)

\* C5: when the request has finished, the response body is the placeholder
\* if no byte was drained from the capture buffer, and else exactly the
\* drained bytes in order.
C5_BodyIsDrainedOrPlaceholder ==
  dpc = "done" => body = (IF drained = <<>> THEN Placeholder ELSE drained)

C5_Witness ==
  /\ dpc = "done"
  /\ Len(drained) >= 2
  /\ body = drained
  /\ now < t

\* C6: every run request that has entered the streaming loop eventually
\* finishes (its handler returns, or the server ends), whatever the process
\* writes.
C6_RequestFinishes == <>(pc[StreamReq] = "done" \/ exited)

\* C7: killChildren calls Kill on every process of the registry it locked, a
\* failed Kill (a process already waited for) does not stop the loop, and
\* the registry is empty when it returns: until the next registration the
\* registry stays empty and a list shows no process.
C7_KillSignalsAllAndEmpties ==
  /\ kpc = "range" =>
       /\ \A k \in (DOMAIN children) \ ktodo :
            children[k] \in signalled \cup kfailed
       /\ \A p \in kfailed : KillFails(p)
  /\ emptied => DOMAIN children = {}
  /\ (lpc = "done" /\ lafterKill) => lout = <<>>

C7_Witness ==
  /\ kpc = "range"
  /\ ktodo = {}
  /\ Cardinality(DOMAIN children) = 2
  /\ kfailed # {}
  /\ Pids(children) \ kfailed # {}

\* C8: a rejected run request has no process and no registry entry, its
\* rejection leaves the registry, the processes and lastRun as they were,
\* and lastRun is written only by a request whose process was started.
C8_RejectionChangesNothing ==
  /\ [](\A r \in Reqs :
          status[r] = StatusTooManyRequests
            => /\ pc[r] = "done"
               /\ proc[r] = "none"
               /\ r \notin Pids(children))
  /\ [][\A r \in Reqs :
          (status[r] # StatusTooManyRequests
             /\ status'[r] = StatusTooManyRequests)
            => UNCHANGED <<lastRun, children, proc>>]_vars
  /\ [][lastRun' # lastRun
          => \E r \in Started : pc[r] = "record" /\ pc'[r] = "stream"]_vars

C8_Witness ==
  \E r \in Reqs :
    /\ status[r] = StatusTooManyRequests
    /\ lastRun > ZeroTime
    /\ DOMAIN children # {}

\* C9: a run request whose command failed to start answers with status 500,
\* has registered nothing and has not written lastRun.
StartFailed(r) ==
  pc[r] = "done" /\ proc[r] = "none" /\ status[r] # StatusTooManyRequests

C9_StartFailureAnswers500 ==
  \A r \in Reqs :
    StartFailed(r)
      => /\ Answered(r) = StatusInternalServerError
         /\ r \notin Pids(children)

C11_FinishLeavesProcessRegistered ==
  /\ [][\A r \in Reqs :
          (pc[r] = "stream" /\ pc'[r] = "done")
            => UNCHANGED <<children, signalled, proc, watcher>>]_vars
  /\ [](\A r \in Reqs :
          (pc[r] = "done" /\ proc[r] = "running" /\ r \in tracked)
            => r \in Pids(children))

\* C12: once more bytes than the ceiling have gone through Write, the
\* limitWriter that the next Write and Read calls see is discarding, and a
\* Write called after that has nothing to store.
C12_DiscardingAfterCeiling ==
  /\ (wpc = "idle" /\ Len(written) > lw.limit) => lw.discarding
  /\ Len(written) - Len(wp) > lw.limit => wp = <<>>

C14_BufferMutualExclusion ==
  /\ ~(wpc = "locked" /\ dpc = "locked")
  /\ \A i \in DOMAIN drained : drained[i] # Garbage

\* C15: the bytes drained so far are a prefix of the bytes written so far.
C15_DrainedIsPrefixOfWritten == IsPrefix(drained, written)

\* C16: every Write call returns n = len(p) (with a nil error), whether it
\* stores p or discards it, and no step of Write waits for the reader.
C16_WriteReturnsFullLength ==
  /\ wret.n = wret.len
  /\ wpc \notin {"short", "panic"}

\* C17: the registry holds one entry for every process that was registered
\* and not removed since, under that process's start time: no registration
\* overwrites the entry of a process that is still registered.
C17_OneEntryPerRegisteredProcess ==
  /\ \A r \in tracked : MapGet(children, startTime[r]) = r
  /\ Cardinality(DOMAIN children) = Cardinality(tracked)

\* C18: the removal done by a completion watcher removes at most the entry
\* of its own process and changes no other entry (it is a no-op when
\* killChildren has cleared the entry), and once the watcher is done its
\* process is not in the registry.
C18_WatcherRemovesOwnEntryOnly ==
  /\ [][\A r \in Reqs :
          (watcher[r] = "reaped" /\ watcher'[r] = "done")
            => \A k \in DOMAIN children :
                 children[k] # r
                   => (k \in DOMAIN children' /\ children'[k] = children[k])]_vars
  /\ [](\A r \in Reqs : watcher[r] = "done" => r \notin Pids(children))

\* C19: the loop stops for idleness only after an io.Copy that returned no
\* byte, when more than maxIdle has passed since the last io.Copy that
\* returned bytes (or since loop entry), and it does stop at such an
\* io.Copy; loop entry and every io.Copy that returned bytes set the idle
\* reference time to the current time.
C19_IdleStop ==
  /\ [][(dpc = "after" /\ dpc' = "done")
          => (n = 0 /\ now > lastDataTime + MaxIdle)]_vars
  /\ [][(dpc = "after" /\ dpc' # "after" /\ n = 0
             /\ now > lastDataTime + MaxIdle)
          => dpc' = "done"]_vars
  /\ [][(dpc = "after" /\ dpc' # "after" /\ n > 0)
          => (dpc' = "select" /\ lastDataTime' = now)]_vars
  /\ [][(dpc = "entry" /\ dpc' # "entry") => lastDataTime' = now]_vars

C19_Witness ==
  /\ dpc = "done"
  /\ now < t
  /\ yields >= 1
  /\ lastDataTime > Boot
  /\ now > lastDataTime + MaxIdle

\* A process that is in the registry, running, and was never signalled.
Uncovered(r) ==
  r \in Pids(children) /\ proc[r] = "running" /\ r \notin signalled

\* C20: a started process is covered by bulk termination: when a
\* killChildren call has returned, no process that was started when the
\* call took the lock (registered or not yet) is in the registry, running
\* and never signalled.
C20_KillCoversStartedProcesses ==
  kpc # "range" => \A r \in Reqs : kat[r] # "none" => ~Uncovered(r)

====
